---- MODULE Spec2Model ----
(***************************************************************************)
(* Fingering selection engine of tuttut (src/app/utils.py):                *)
(*   - viterbi: log-space Viterbi decoder over a bank of fingerings;       *)
(*   - find_all_paths: enumeration of the playable fingerings of a chord;  *)
(*   - expand_emission_matrix: incremental growth of the emission matrix.  *)
(*                                                                         *)
(* Representation.  Arrays are functions over 0-based index ranges, as in  *)
(* the source.  A probability is a pair <<num, den>> of naturals.  A value *)
(* of the log domain is <<x>> (finite, x in millionths, natural log) or    *)
(* <<>> (minus infinity, numpy's log(0)).                                  *)
(***************************************************************************)
EXTENDS Integers, Sequences, FiniteSets, TLC

VARIABLES
  \* viterbi(V, Tm, Em, initial_distribution)
  T, M, Tm, Em, initial_distribution, omega, prev, S, last_state,
  backtrack_index, vt, vpc, verr

vitVars == <<T, M, Tm, Em, initial_distribution, omega, prev, S, last_state,
             backtrack_index, vt, vpc, verr>>

\* find_all_paths(G, note_arrays): G is the fretboard graph built from the
\* tuning, its stored distances computed from the coordinates `metric` names
VARIABLES tuning, metric, G, chord, note_arrays, paths, ppc, perr

pathVars == <<tuning, metric, G, chord, note_arrays, paths, ppc, perr>>

\* expand_emission_matrix(emission_matrix, all_paths): the caller's matrix,
\* and len(all_paths) of every call made so far
VARIABLES emission_matrix, calls, epc, eerr

emVars == <<emission_matrix, calls, epc, eerr>>

\* compute_path_difficulty(G, path, previous_path): its arguments, the
\* factors it computes and its result
VARIABLES cpd_path, cpd_previous_path, cpd_height, cpd_dheight,
          cpd_n_changed_strings, cpd_difficulty, cpd_pc

difVars == <<cpd_path, cpd_previous_path, cpd_height, cpd_dheight,
             cpd_n_changed_strings, cpd_difficulty, cpd_pc>>

\* get_all_possible_notes(tuning, nfrets): its arguments and its result
VARIABLES gn_tuning, gn_nfrets, gn_res, gn_pc

noteVars == <<gn_tuning, gn_nfrets, gn_res, gn_pc>>

\* build_path_graph(G, note_arrays): the edges of its result
VARIABLES path_graph, bpg_pc

edgeVars == <<path_graph, bpg_pc>>

vars == <<vitVars, pathVars, emVars, difVars, noteVars, edgeVars>>

otherThanViterbi == <<pathVars, emVars, difVars, noteVars, edgeVars>>
otherThanPaths == <<vitVars, emVars, difVars, noteVars, edgeVars>>
otherThanEmission == <<vitVars, pathVars, difVars, noteVars, edgeVars>>
otherThanDifficulty == <<vitVars, pathVars, emVars, noteVars, edgeVars>>
otherThanNotes == <<vitVars, pathVars, emVars, difVars, edgeVars>>
otherThanPathGraph == <<vitVars, pathVars, emVars, difVars, noteVars>>

\* Python's None.
None == <<>>

\* The variables of an operation that is not running.
IdleViterbi ==
  /\ T = 0
  /\ M = 0
  /\ Tm = <<>>
  /\ Em = <<>>
  /\ initial_distribution = None
  /\ omega = <<>>
  /\ prev = <<>>
  /\ S = <<>>
  /\ last_state = 0
  /\ backtrack_index = 0
  /\ vt = 0
  /\ vpc = "idle"
  /\ verr = "none"

IdlePaths ==
  /\ tuning = <<>>
  /\ metric = "none"
  /\ G = <<>>
  /\ chord = <<>>
  /\ note_arrays = <<>>
  /\ paths = <<>>
  /\ ppc = "idle"
  /\ perr = "none"

IdleEmission ==
  /\ emission_matrix = <<>>
  /\ calls = <<>>
  /\ epc = "idle"
  /\ eerr = "none"

IdleDifficulty ==
  /\ cpd_path = <<>>
  /\ cpd_previous_path = <<>>
  /\ cpd_height = 0
  /\ cpd_dheight = 0
  /\ cpd_n_changed_strings = 0
  /\ cpd_difficulty = 0
  /\ cpd_pc = "idle"

IdleNotes ==
  /\ gn_tuning = <<>>
  /\ gn_nfrets = 0
  /\ gn_res = <<>>
  /\ gn_pc = "idle"

IdlePathGraph ==
  /\ path_graph = {}
  /\ bpg_pc = "idle"

----------------------------------------------------------------------------
\* Bounds of the model.
MaxT == 3
MaxM == 2
\* Fretboard of the model: strings, frets per string (nfrets), chord size.
NStrings == 3
NFrets == 7
MaxNotes == 3

----------------------------------------------------------------------------
\* Log domain.

NegInf == <<>>
Fin(x) == <<x>>
IsFin(a) == Len(a) = 1
Val(a) == a[1]

\* a + b on floats that are finite or -inf.
LAdd(a, b) == IF IsFin(a) /\ IsFin(b) THEN Fin(Val(a) + Val(b)) ELSE NegInf

\* a > b on floats that are finite or -inf.
LGreater(a, b) == IF ~IsFin(a) THEN FALSE ELSE IF ~IsFin(b) THEN TRUE ELSE Val(a) > Val(b)

RECURSIVE Pow2Floor(_, _)
\* The largest power of two p * 2^k that is at most n.
Pow2Floor(n, p) == IF 2 * p > n THEN p ELSE Pow2Floor(n, 2 * p)

RECURSIVE Log2(_)
Log2(p) == IF p = 1 THEN 0 ELSE 1 + Log2(p \div 2)

\* ln(1 + j/8) for j = 0..7, in millionths.
LnEighths == <<0, 117783, 223144, 318454, 405465, 485508, 559616, 628609>>

\* Natural logarithm of an integer n, 1 <= n < 4096, in millionths (math.log
\* and np.log in fixed point): n = 2^k * (1 + j/8) * (1 + r) with r < 1/8,
\* ln(1 + r) = 2z + 2z^3/3 + ... for z = r / (2 + r).  Exact on the table
\* (every n up to 16), within 5 millionths elsewhere.
LnMicro(n) ==
  LET p == Pow2Floor(n, 1)
      j == (8 * n) \div p - 8
      a == 8 * n - p * (8 + j)
      b == 8 * n + p * (8 + j)
      z == (a * 1000000) \div b
      z3 == ((((z \div 10) * (z \div 10)) \div 10000) * z) \div 1000000
  IN  Log2(p) * 693147 + LnEighths[j + 1] + 2 * z + (2 * z3) \div 3

\* np.log of a probability <<num, den>>; log(0) = -inf.
Log(p) == IF p[1] = 0 THEN NegInf ELSE Fin(LnMicro(p[1]) - LnMicro(p[2]))

\* Product of a probability and a 0/1 emission entry.
Mul(p, e) == <<p[1] * e, p[2]>>

RECURSIVE ArgMaxFrom(_, _, _, _)
\* np.argmax over indices k..n-1 given the best index so far: the first
\* index holding the maximum.
ArgMaxFrom(a, n, k, best) ==
  IF k >= n THEN best
  ELSE ArgMaxFrom(a, n, k + 1, IF LGreater(a[k], a[best]) THEN k ELSE best)

\* np.argmax(a) for an array of length n >= 1.
ArgMax(a, n) == ArgMaxFrom(a, n, 1, 0)

\* np.max(a) for an array of length n >= 1.
Max(a, n) == a[ArgMax(a, n)]

----------------------------------------------------------------------------
\* build_transition_matrix: row i is the inverse difficulties of row i
\* divided by their sum.

RECURSIVE SumTo(_, _)
SumTo(f, n) == IF n = 0 THEN 0 ELSE f[n - 1] + SumTo(f, n - 1)

build_transition_matrix(w, m) ==
  [i \in 0..(m - 1) |-> [j \in 0..(m - 1) |-> <<w[i][j], SumTo(w[i], m)>>]]

\* Inverse difficulties (positive weights) of a bank of m fingerings: from
\* each fingering one transition is twice as easy as the others.
InverseDifficulties(m) ==
  { [i \in 0..(m - 1) |-> [j \in 0..(m - 1) |-> IF j = fav[i] THEN 2 ELSE 1]] :
      fav \in [0..(m - 1) -> 0..(m - 1)] }

\* 0/1 emission matrices (m states, n observations) with a candidate state
\* for every observation.
EmissionMatrices(m, n) ==
  { e \in [0..(m - 1) -> [0..(n - 1) -> {0, 1}]] :
      \A c \in 0..(n - 1) : \E i \in 0..(m - 1) : e[i][c] = 1 }

\* Caller-supplied priors: none (the default), or the last state of the bank
\* twice as likely as each of the others.
Priors(m) ==
  {None} \cup { [i \in 0..(m - 1) |-> IF i = f THEN <<2, m + 1>> ELSE <<1, m + 1>>] :
                  f \in {m - 1} \cap (0..(m - 1)) }

----------------------------------------------------------------------------
\* viterbi, src/app/utils.py lines 450-500.

\* line 465
DefaultDistribution(m) == [i \in 0..(m - 1) |-> <<1, m>>]

\* line 468: omega[0, :] = np.log(initial_distribution * Em[:, V[0]])
Omega0(pi, em, m) == [j \in 0..(m - 1) |-> Log(Mul(pi[j], em[j][0]))]

\* line 475 with the emission term forgotten.
ProbabilityNoEmission(om, tm, em, m, t, j) ==
  [i \in 0..(m - 1) |-> LAdd(om[i], Log(tm[i][j]))]

\* line 475 with the transition term forgotten.
ProbabilityNoTransition(om, tm, em, m, t, j) ==
  [i \in 0..(m - 1) |-> LAdd(om[i], Log(<<em[j][t], 1>>))]

\* line 475: omega[t - 1] + np.log(Tm[:, j]) + np.log(Em[j, V[t]])
Probability(om, tm, em, m, t, j) ==
  [i \in 0..(m - 1) |-> LAdd(LAdd(om[i], Log(tm[i][j])), Log(<<em[j][t], 1>>))]

Init ==
  /\ IdlePaths
  /\ IdleEmission
  /\ IdleDifficulty
  /\ IdleNotes
  /\ IdlePathGraph
  /\ T \in 0..MaxT
  /\ M \in (IF T = 0 THEN 0 ELSE 1)..MaxM
  /\ \E w \in InverseDifficulties(M) : Tm = build_transition_matrix(w, M)
  /\ Em \in EmissionMatrices(M, T)
  /\ initial_distribution \in Priors(M)
  /\ omega = <<>>
  /\ prev = <<>>
  /\ S = <<>>
  /\ last_state = 0
  /\ backtrack_index = 0
  /\ vt = 0
  /\ vpc = "start"
  /\ verr = "none"

\* lines 462-470
ViterbiInit ==
  /\ vpc = "start"
  /\ IF M = 0 /\ initial_distribution = None
     THEN \* line 465: 1/M
          /\ vpc' = "error"
          /\ verr' = "ZeroDivisionError"
          /\ UNCHANGED <<omega, prev, vt, initial_distribution>>
     ELSE IF T = 0
     THEN \* line 468: V[0]
          /\ vpc' = "error"
          /\ verr' = "IndexError"
          /\ UNCHANGED <<omega, prev, vt, initial_distribution>>
     ELSE /\ initial_distribution' =
               IF initial_distribution = None THEN DefaultDistribution(M)
               ELSE initial_distribution
          /\ omega' = [t \in 0..(T - 1) |->
                        IF t = 0 THEN Omega0(initial_distribution', Em, M)
                        ELSE [j \in 0..(M - 1) |-> Fin(0)]]
          /\ prev' = [t \in 0..(T - 2) |-> [j \in 0..(M - 1) |-> 0]]
          /\ vt' = 1
          /\ vpc' = "forward"
          /\ UNCHANGED verr
  /\ UNCHANGED <<T, M, Tm, Em, S, last_state, backtrack_index>>
  /\ UNCHANGED otherThanViterbi

\* lines 472-481, one iteration of the loop over t (all j)
ViterbiForward ==
  /\ vpc = "forward"
  /\ vt < T
  /\ prev' = [prev EXCEPT ![vt - 1] =
                [j \in 0..(M - 1) |-> ArgMax(Probability(omega[vt - 1], Tm, Em, M, vt, j), M)]]
  /\ omega' = [omega EXCEPT ![vt] =
                [j \in 0..(M - 1) |-> Max(Probability(omega[vt - 1], Tm, Em, M, vt, j), M)]]
  /\ vt' = vt + 1
  /\ UNCHANGED <<T, M, Tm, Em, initial_distribution, S, last_state, backtrack_index, vpc, verr>>
  /\ UNCHANGED otherThanViterbi

\* lines 484-491
ViterbiTerminal ==
  /\ vpc = "forward"
  /\ vt >= T
  /\ last_state' = ArgMax(omega[T - 1], M)
  /\ S' = [k \in 0..(T - 1) |-> IF k = 0 THEN last_state' ELSE 0]
  /\ backtrack_index' = 1
  /\ vt' = T - 2
  /\ vpc' = "backtrack"
  /\ UNCHANGED <<T, M, Tm, Em, initial_distribution, omega, prev, verr>>
  /\ UNCHANGED otherThanViterbi

\* lines 492-495, one iteration of the loop over i
ViterbiBacktrack ==
  /\ vpc = "backtrack"
  /\ vt >= 0
  /\ S' = [S EXCEPT ![backtrack_index] = prev[vt][last_state]]
  /\ last_state' = prev[vt][last_state]
  /\ backtrack_index' = backtrack_index + 1
  /\ vt' = vt - 1
  /\ UNCHANGED <<T, M, Tm, Em, initial_distribution, omega, prev, vpc, verr>>
  /\ UNCHANGED otherThanViterbi

\* lines 497-500
ViterbiFlip ==
  /\ vpc = "backtrack"
  /\ vt < 0
  /\ S' = [k \in 0..(T - 1) |-> S[T - 1 - k]]
  /\ vpc' = "done"
  /\ UNCHANGED <<T, M, Tm, Em, initial_distribution, omega, prev, last_state,
                 backtrack_index, vt, verr>>
  /\ UNCHANGED otherThanViterbi

Next ==
  \/ ViterbiInit
  \/ ViterbiForward
  \/ ViterbiTerminal
  \/ ViterbiBacktrack
  \/ ViterbiFlip

Spec == Init /\ [][Next]_vars

----------------------------------------------------------------------------
\* The fretboard graph G.  A node is a position <<string, fret>>; two nodes
\* playing the same note are different nodes.  Lengths are in hundredths.

ScaleLength == 650
MaxDistance == 6
MaxFretSpan == 5

\* Tunings of the model: open strings one or two semitones apart, so that a
\* note is found on several strings within NFrets frets.
Tunings == { [s \in 1..NStrings |-> step * (s - 1)] : step \in {1, 2} }

\* lines 80-98: res[string][ifret], ifret in range(nfrets)
get_all_possible_notes(tun, nfrets) ==
  [s \in 0..(Len(tun) - 1) |-> [ifret \in 0..(nfrets - 1) |-> tun[s + 1] + ifret]]

\* G.nodes, in insertion order: string by string, fret by fret.
Nodes(tun) ==
  [k \in 1..(Len(tun) * NFrets) |-> <<(k - 1) \div NFrets, (k - 1) % NFrets>>]

\* The note a node plays.
NoteOf(tun, p) == get_all_possible_notes(tun, NFrets)[p[1]][p[2]]

RECURSIVE FretDistanceFrom(_, _, _)
FretDistanceFrom(n, scale_length, res) ==
  IF n = 0 THEN res
  ELSE LET fret_height == (scale_length * 1000) \div 17817
       IN  FretDistanceFrom(n - 1, scale_length - fret_height, res + fret_height)

\* lines 114-130: distance of fret nfret from the nut
get_fret_distance(nfret) == FretDistanceFrom(nfret, ScaleLength * 100, 0)

RECURSIVE ISqrtIn(_, _, _)
\* lo * lo <= n < hi * hi
ISqrtIn(n, lo, hi) ==
  IF hi - lo <= 1 THEN lo
  ELSE LET mid == (lo + hi) \div 2
       IN  IF mid * mid <= n THEN ISqrtIn(n, mid, hi) ELSE ISqrtIn(n, lo, mid)

\* Square root, rounded down.
ISqrt(n) == ISqrtIn(n, 0, 46341)

\* lines 100-112: Euclidean distance of the points (x[0]/6, x[1]), (y[0]/6, y[1]);
\* x[0], y[0] are string indices, x[1], y[1] are in hundredths.
distance_between(x, y) ==
  ISqrt(((100 * (x[1] - y[1])) * (100 * (x[1] - y[1]))) \div 36
        + (x[2] - y[2]) * (x[2] - y[2]))

\* The point of a node handed to distance_between when the graph is built:
\* its pos attribute (string, fret index), or (string, fret offset).
Coordinates(m, p) ==
  IF m = "fret_index" THEN <<p[1], 100 * p[2]>> ELSE <<p[1], get_fret_distance(p[2])>>

\* The complete graph over the nodes: G[p][q]["distance"] for p # q, and no
\* edge from a node to itself.
build_complete_graph(tun, m) ==
  LET nodes == { Nodes(tun)[k] : k \in 1..Len(Nodes(tun)) }
  IN  [p \in nodes |->
        [q \in nodes \ {p} |->
          [distance |-> distance_between(Coordinates(m, p), Coordinates(m, q))]]]

----------------------------------------------------------------------------
\* get_all_possible_notes with its conversions, src/app/utils.py lines 9-22
\* and 80-98.  A Note is <<degree, octave>>, the degree counted in semitones
\* from C (0..11).

\* pretty_midi's note_name_to_number of degree + str(octave) (line 92)
note_name_to_number(note) == 12 * (note[2] + 1) + note[1]

\* pretty_midi's note_number_to_name (line 18): pitch name, then the octave
note_number_to_name(n) == <<n % 12, n \div 12 - 1>>

\* line 19 splits the name before its last character, or before its last two
\* if it holds a '-': right for the octaves -9..9.  Beyond, a digit of the
\* octave is left in the degree and theory.Degree (line 20) raises ValueError.
NameSplits(n) == note_number_to_name(n)[2] \in -9..9

\* lines 9-22, for a name that splits
note_number_to_note(n) == note_number_to_name(n)

\* Open strings of the model: C-1 (note number 0), E2, A2 and G9 (127).
OpenNotes == {<<0, -1>>, <<4, 2>>, <<9, 2>>, <<7, 9>>}

NotesInit ==
  /\ IdleViterbi
  /\ IdlePaths
  /\ IdleEmission
  /\ IdleDifficulty
  /\ IdlePathGraph
  /\ gn_tuning \in UNION { [1..n -> OpenNotes] : n \in 1..NStrings }
  /\ gn_nfrets \in 0..NFrets
  /\ gn_res = <<>>
  /\ gn_pc = "start"

\* lines 80-98
GetAllPossibleNotes ==
  /\ gn_pc = "start"
  /\ LET numbers == [s \in 1..Len(gn_tuning) |-> note_name_to_number(gn_tuning[s])]
         res == get_all_possible_notes(numbers, gn_nfrets)
     IN  IF \E s \in DOMAIN res : \E ifret \in DOMAIN res[s] : ~NameSplits(res[s][ifret])
         THEN /\ gn_pc' = "error"
              /\ UNCHANGED gn_res
         ELSE /\ gn_res' = [s \in DOMAIN res |->
                             [ifret \in DOMAIN res[s] |-> note_number_to_note(res[s][ifret])]]
              /\ gn_pc' = "done"
  /\ UNCHANGED <<gn_tuning, gn_nfrets>>
  /\ UNCHANGED otherThanNotes

NotesNext == GetAllPossibleNotes

NotesSpec == NotesInit /\ [][NotesNext]_vars

----------------------------------------------------------------------------
\* find_all_paths and its helpers, src/app/utils.py lines 132-250.

\* Range of a sequence: Python's set(path).
SetOf(seq) == { seq[i] : i \in 1..Len(seq) }

RECURSIVE SelectNodes(_, _, _)
SelectNodes(nodes, tun, note) ==
  IF Len(nodes) = 0 THEN <<>>
  ELSE (IF NoteOf(tun, Head(nodes)) = note THEN <<Head(nodes)>> ELSE <<>>)
       \o SelectNodes(Tail(nodes), tun, note)

\* lines 132-144
get_notes_in_graph(tun, note) == SelectNodes(Nodes(tun), tun, note)

\* lines 171-184 without the test for different strings.
is_edge_possible_any_string(g, possible_note, possible_target_note) ==
  g[possible_note][possible_target_note].distance < MaxDistance * 100

\* lines 171-184
is_edge_possible(g, possible_note, possible_target_note) ==
  LET is_distance_possible == g[possible_note][possible_target_note].distance < MaxDistance * 100
      is_different_string == possible_note[1] # possible_target_note[1]
  IN  is_distance_possible /\ is_different_string

\* lines 162-165: G[possible_note][possible_target_note] is read for every
\* pair of nodes of consecutive layers; an edge the graph lacks is a KeyError.
BuildRaises(g, layers) ==
  \E k \in 1..(Len(layers) - 1) :
    \E a \in SetOf(layers[k]) : \E b \in SetOf(layers[k + 1]) : b \notin DOMAIN g[a]

\* lines 212-226 comparing the tuples, not their sets.
is_path_already_checked_ordered(ps, current_path) ==
  \E i \in 1..Len(ps) : ps[i] = current_path

\* lines 212-226
is_path_already_checked(ps, current_path) ==
  \E i \in 1..Len(ps) : SetOf(ps[i]) = SetOf(current_path)

\* lines 228-250 without the fret span check.
is_path_possible_any_span(path, layers) ==
  LET plucked_strings == [i \in 1..Len(path) |-> path[i][1]]
  IN  Len(plucked_strings) = Cardinality(SetOf(plucked_strings)) /\ Len(path) <= Len(layers)

\* lines 228-250
is_path_possible(path, layers) ==
  LET plucked_strings == [i \in 1..Len(path) |-> path[i][1]]
      one_per_string == Len(plucked_strings) = Cardinality(SetOf(plucked_strings))
      used_frets == { path[i][2] : i \in { k \in 1..Len(path) : path[k][2] # 0 } }
      max_fret_span ==
        IF used_frets # {}
        THEN \A a, b \in used_frets : a - b < MaxFretSpan
        ELSE TRUE
      right_length == Len(path) <= Len(layers)
  IN  one_per_string /\ max_fret_span /\ right_length

RECURSIVE PathsThrough(_, _, _, _, _)
\* nx.all_simple_paths on the layered path graph of build_path_graph (lines
\* 146-169: an edge from a node of layer k-1 to a node of layer k iff
\* is_edge_possible), depth first in adjacency order: the extensions of
\* `path` through layers k.. by candidates i.. of layer k.
PathsThrough(g, path, layers, k, i) ==
  IF k > Len(layers) THEN <<path>>
  ELSE IF i > Len(layers[k]) THEN <<>>
  ELSE (IF is_edge_possible(g, path[Len(path)], layers[k][i])
        THEN PathsThrough(g, Append(path, layers[k][i]), layers, k + 1, 1)
        ELSE <<>>)
       \o PathsThrough(g, path, layers, k, i + 1)

RECURSIVE PermutationPaths(_, _, _)
\* lines 204-206: the paths of one permutation, source by source.
PermutationPaths(g, layers, i) ==
  IF i > Len(layers[1]) THEN <<>>
  ELSE PathsThrough(g, <<layers[1][i]>>, layers, 2, 1) \o PermutationPaths(g, layers, i + 1)

RECURSIVE AppendNew(_, _, _, _, _)
\* lines 206-208 for the paths found[lo..hi], in order (the range is halved
\* to keep the evaluation shallow; the order of the appends is the loop's).
AppendNew(acc, found, lo, hi, layers) ==
  IF lo > hi THEN acc
  ELSE IF lo = hi
  THEN IF ~is_path_already_checked(acc, found[lo]) /\ is_path_possible(found[lo], layers)
       THEN Append(acc, found[lo])
       ELSE acc
  ELSE LET mid == (lo + hi) \div 2
           left == AppendNew(acc, found, lo, mid, layers)
       IN  IF Len(left) >= 0 THEN AppendNew(left, found, mid + 1, hi, layers) ELSE <<>>

\* seq without its i-th element
Without(seq, i) == [k \in 1..(Len(seq) - 1) |-> IF k < i THEN seq[k] ELSE seq[k + 1]]

\* Only the given order, no permutation of the layers.
permutations_identity(seq) == <<seq>>

RECURSIVE permutations(_)
RECURSIVE PermutationsFrom(_, _)
\* itertools.permutations, in its order (lexicographic in the positions).
permutations(seq) == IF Len(seq) = 0 THEN << <<>> >> ELSE PermutationsFrom(seq, 1)
PermutationsFrom(seq, i) ==
  IF i > Len(seq) THEN <<>>
  ELSE LET rest == permutations(Without(seq, i))
       IN  [k \in 1..Len(rest) |-> <<seq[i]>> \o rest[k]] \o PermutationsFrom(seq, i + 1)

RECURSIVE OverPermutations(_, _, _, _)
\* lines 201-208
OverPermutations(g, acc, perms, k) ==
  IF k > Len(perms) THEN acc
  ELSE LET found == PermutationPaths(g, perms[k], 1)
           appended == AppendNew(acc, found, 1, Len(found), perms[k])
       IN  \* (the test only makes the evaluation of `appended` happen here)
           IF Len(appended) >= 0 THEN OverPermutations(g, appended, perms, k + 1) ELSE <<>>

\* lines 186-210, when no build_path_graph raises
find_all_paths(g, arrays) ==
  IF Len(arrays) = 1
  THEN [i \in 1..Len(arrays[1]) |-> <<arrays[1][i]>>]
  ELSE OverPermutations(g, <<>>, permutations(arrays), 1)

\* lines 201-202: some permutation makes build_path_graph raise
FindAllPathsRaises(g, arrays) ==
  /\ Len(arrays) # 1
  /\ LET perms == permutations(arrays)
     IN  \E k \in 1..Len(perms) : BuildRaises(g, perms[k])

\* Notes a chord may ask for: every note of the fretboard and the one above.
ChordNotes(tun) == 0..(tun[Len(tun)] + NFrets)

\* Chords of 1..MaxNotes required notes, as note groups sorted by pitch.
Chords(tun) ==
  UNION { { c \in [1..n -> ChordNotes(tun)] : \A i \in 1..(n - 1) : c[i] <= c[i + 1] } :
            n \in 1..MaxNotes }

PathsInit ==
  /\ tuning \in Tunings
  /\ metric \in {"fret_index", "fret_offset"}
  /\ G = build_complete_graph(tuning, metric)
  /\ chord \in Chords(tuning)
  /\ note_arrays = <<>>
  /\ paths = <<>>
  /\ ppc = "start"
  /\ perr = "none"
  /\ IdleViterbi
  /\ IdleEmission
  /\ IdleDifficulty
  /\ IdleNotes
  /\ IdlePathGraph

\* The caller's per-note candidate lists (lines 132-144 for every note).
GetNotes ==
  /\ ppc = "start"
  /\ note_arrays' = [i \in 1..Len(chord) |-> get_notes_in_graph(tuning, chord[i])]
  /\ ppc' = "enumerate"
  /\ UNCHANGED <<tuning, metric, G, chord, paths, perr>>
  /\ UNCHANGED otherThanPaths

\* lines 186-210
FindAllPaths ==
  /\ ppc = "enumerate"
  /\ IF FindAllPathsRaises(G, note_arrays)
     THEN /\ ppc' = "error"
          /\ perr' = "KeyError"
          /\ UNCHANGED paths
     ELSE /\ paths' = find_all_paths(G, note_arrays)
          /\ ppc' = "done"
          /\ UNCHANGED perr
  /\ UNCHANGED <<tuning, metric, G, chord, note_arrays>>
  /\ UNCHANGED otherThanPaths

PathsNext ==
  \/ GetNotes
  \/ FindAllPaths

PathsSpec == PathsInit /\ [][PathsNext]_vars

----------------------------------------------------------------------------
\* expand_emission_matrix, src/app/utils.py lines 521-539.  A matrix is a
\* function from its row indices to functions from its column indices.

MaxCalls == 4
MaxNew == 3

\* len(emission_matrix) and emission_matrix.shape[1]
Rows(em) == Cardinality(DOMAIN em)
Cols(em) == IF Rows(em) = 0 THEN 0 ELSE Cardinality(DOMAIN em[0])

\* np.zeros((r, c)) and np.vstack(np.zeros(r)), np.vstack(np.ones(r))
Zeros(r, c) == [i \in 0..(r - 1) |-> [k \in 0..(c - 1) |-> 0]]
ZerosColumn(r) == [i \in 0..(r - 1) |-> [k \in {0} |-> 0]]
OnesColumn(r) == [i \in 0..(r - 1) |-> [k \in {0} |-> 1]]

\* np.vstack((a, b)) for matrices of equal width, np.hstack((a, b)) for
\* matrices of equal height
VStack(a, b) ==
  [i \in 0..(Rows(a) + Rows(b) - 1) |-> IF i < Rows(a) THEN a[i] ELSE b[i - Rows(a)]]
HStack(a, b) ==
  [i \in DOMAIN a |->
    [k \in 0..(Cols(a) + Cols(b) - 1) |-> IF k < Cols(a) THEN a[i][k] ELSE b[i][k - Cols(a)]]]

\* lines 531-539 with the new column all ones (the zeros for the old rows
\* forgotten).
expand_emission_matrix_ones(em, n) ==
  IF Rows(em) > 0
  THEN HStack(VStack(em, Zeros(n, Cols(em))), OnesColumn(Rows(em) + n))
  ELSE OnesColumn(n)

\* lines 531-539, n = len(all_paths) >= 1
expand_emission_matrix(em, n) ==
  IF Rows(em) > 0
  THEN LET filler == Zeros(n, Cols(em))
           stacked == VStack(em, filler)
           column == VStack(ZerosColumn(Rows(stacked) - n), OnesColumn(n))
       IN  HStack(stacked, column)
  ELSE OnesColumn(n)

EmissionInit ==
  /\ IdleViterbi
  /\ IdlePaths
  /\ IdleDifficulty
  /\ IdleNotes
  /\ IdlePathGraph
  /\ emission_matrix = <<>>
  /\ calls = <<>>
  /\ epc = "ready"
  /\ eerr = "none"

\* One call emission_matrix = expand_emission_matrix(emission_matrix, all_paths)
\* with len(all_paths) = n.  np.vstack of an empty array (lines 534, 537 for
\* an empty all_paths) raises ValueError.
ExpandEmissionMatrix ==
  /\ epc = "ready"
  /\ Len(calls) < MaxCalls
  /\ \E n \in 0..MaxNew :
       IF n = 0
       THEN /\ epc' = "error"
            /\ eerr' = "ValueError"
            /\ UNCHANGED <<emission_matrix, calls>>
       ELSE /\ emission_matrix' = expand_emission_matrix(emission_matrix, n)
            /\ calls' = Append(calls, n)
            /\ UNCHANGED <<epc, eerr>>
  /\ UNCHANGED otherThanEmission

EmissionNext == ExpandEmissionMatrix

EmissionSpec == EmissionInit /\ [][EmissionNext]_vars

----------------------------------------------------------------------------
\* build_path_graph on its own, src/app/utils.py lines 146-184: two layers of
\* one position each, on a fretboard wide enough for two open strings to be
\* 6 apart (36 strings, by the x/6 of distance_between).

MaxString == 37

\* The fretboard graph over the given positions: the part of G that
\* build_path_graph reads.
complete_graph_over(nodes, m) ==
  [p \in nodes |->
    [q \in nodes \ {p} |->
      [distance |-> distance_between(Coordinates(m, p), Coordinates(m, q))]]]

\* lines 162-167: the edges of the result
build_path_graph(g, layers) ==
  { e \in UNION { SetOf(layers[k]) \X SetOf(layers[k + 1]) : k \in 1..(Len(layers) - 1) } :
      is_edge_possible(g, e[1], e[2]) }

PathGraphInit ==
  /\ IdleViterbi
  /\ IdleEmission
  /\ IdleDifficulty
  /\ IdleNotes
  /\ tuning = <<>>
  /\ chord = <<>>
  /\ paths = <<>>
  /\ ppc = "idle"
  /\ perr = "none"
  /\ metric \in {"fret_index", "fret_offset"}
  /\ \E a \in (0..1) \X (0..(NFrets - 1)) : \E b \in (0..MaxString) \X (0..(NFrets - 1)) :
       /\ note_arrays = << <<a>>, <<b>> >>
       /\ G = complete_graph_over({a, b}, metric)
  /\ path_graph = {}
  /\ bpg_pc = "start"

\* lines 146-169
BuildPathGraph ==
  /\ bpg_pc = "start"
  /\ IF BuildRaises(G, note_arrays)
     THEN /\ bpg_pc' = "error"
          /\ UNCHANGED path_graph
     ELSE /\ path_graph' = build_path_graph(G, note_arrays)
          /\ bpg_pc' = "done"
  /\ UNCHANGED otherThanPathGraph

PathGraphNext == BuildPathGraph

PathGraphSpec == PathGraphInit /\ [][PathGraphNext]_vars

----------------------------------------------------------------------------
\* compute_path_difficulty and its factors, src/app/utils.py lines 252-363.
\* Heights are in halves (get_height returns twice the source's value),
\* lengths in hundredths, and the difficulty is kept as its natural
\* logarithm in millionths, which orders difficulties as the floats do.

\* get_height's previous_path=None
Omitted == << <<-1, -1>> >>

MaxOf(xs) == CHOOSE x \in xs : \A y \in xs : y <= x
MinOf(xs) == CHOOSE x \in xs : \A y \in xs : x <= y
Abs(x) == IF x < 0 THEN -x ELSE x

RECURSIVE get_height(_, _)
\* lines 327-346
get_height(path, previous_path) ==
  LET y == { path[i][2] : i \in { k \in 1..Len(path) : path[k][2] # 0 } }
  IN  IF y # {} THEN MaxOf(y) + MinOf(y)
      ELSE IF previous_path = Omitted THEN 0
      ELSE get_height(previous_path, Omitted)

RECURSIVE get_path_length(_, _)
\* lines 348-363
get_path_length(g, path) ==
  IF Len(path) <= 1 THEN 0
  ELSE g[path[1]][path[2]].distance + get_path_length(g, Tail(path))

\* lines 291-307
get_nfingers(path) == Cardinality({ i \in 1..Len(path) : path[i][2] # 0 })

\* lines 309-325
get_n_changed_strings(path, previous_path) ==
  LET used_strings == { path[i][1] : i \in 1..Len(path) }
      previous_used_strings == { previous_path[i][1] : i \in 1..Len(previous_path) }
  IN  Len(path) - Cardinality(used_strings \cap previous_used_strings)

\* lines 278-289 with b = 1, mu = 0: ln((1/2) * exp(-|x|)), x in halves
laplace_distro(x) == -LnMicro(2) - Abs(x) * 500000

\* lines 252-276: ln(1 / easiness)
compute_path_difficulty(g, path, previous_path) ==
  LET height == get_height(path, previous_path)
      previous_height == IF Len(previous_path) > 0 THEN get_height(previous_path, Omitted) ELSE 0
      dheight == Abs(height - previous_height)
      length == get_path_length(g, path)
      nfingers == get_nfingers(path)
      n_changed_strings == get_n_changed_strings(path, previous_path)
      easiness == laplace_distro(dheight)
                    - (LnMicro(2 + height) - LnMicro(2))
                    - LnMicro(1 + nfingers)
                    - (LnMicro(100 + length) - LnMicro(100))
                    - LnMicro(1 + n_changed_strings)
  IN  -easiness

\* One call compute_path_difficulty(G, path, previous_path) for a fingering of
\* the enumerated bank; the previous fingering is empty (the start of a
\* sequence) or the first or the last fingering of the bank.  Lines 263-276.
ComputePathDifficulty ==
  /\ ppc = "done"
  /\ cpd_pc = "idle"
  /\ \E i \in 1..Len(paths) : \E previous \in {<<>>, paths[1], paths[Len(paths)]} :
       LET height == get_height(paths[i], previous)
           previous_height == IF Len(previous) > 0 THEN get_height(previous, Omitted) ELSE 0
       IN  /\ cpd_path' = paths[i]
           /\ cpd_previous_path' = previous
           /\ cpd_height' = height
           /\ cpd_dheight' = Abs(height - previous_height)
           /\ cpd_n_changed_strings' = get_n_changed_strings(paths[i], previous)
           /\ cpd_difficulty' = compute_path_difficulty(G, paths[i], previous)
  /\ cpd_pc' = "done"
  /\ UNCHANGED otherThanDifficulty

DifficultyNext ==
  \/ GetNotes
  \/ FindAllPaths
  \/ ComputePathDifficulty

DifficultySpec == PathsInit /\ [][DifficultyNext]_vars

----------------------------------------------------------------------------
\* Decoding one chord: its candidates are the fingering bank, the emission
\* matrix is the one expand_emission_matrix grows from the empty matrix, the
\* observations are V = [0], and viterbi gets no initial distribution.

\* The decoder's call of viterbi.  A chord without candidates is NoFingering.
\* With T = 1 viterbi reads of Tm its shape only (the loop of line 472 does
\* not run), so the bank's transition weights are left equal here.
DecodeChord ==
  /\ ppc = "done"
  /\ vpc = "idle"
  /\ IF paths = <<>>
     THEN /\ vpc' = "error"
          /\ verr' = "NoFingering"
          /\ UNCHANGED <<T, M, Tm, Em>>
     ELSE /\ T' = 1
          /\ M' = Len(paths)
          /\ Tm' = build_transition_matrix(
                     [i \in 0..(Len(paths) - 1) |-> [j \in 0..(Len(paths) - 1) |-> 1]],
                     Len(paths))
          /\ Em' = expand_emission_matrix(<<>>, Len(paths))
          /\ vpc' = "start"
          /\ UNCHANGED verr
  /\ UNCHANGED <<initial_distribution, omega, prev, S, last_state, backtrack_index, vt>>
  /\ UNCHANGED otherThanViterbi

DecodeNext ==
  \/ GetNotes
  \/ FindAllPaths
  \/ DecodeChord
  \/ ViterbiInit
  \/ ViterbiTerminal
  \/ ViterbiFlip

DecodeSpec == PathsInit /\ [][DecodeNext]_vars

----------------------------------------------------------------------------
\* Properties of find_all_paths.

\* The notes of a fingering, and how often a note occurs in a sequence.
NotesOfPath(path) == [i \in 1..Len(path) |-> NoteOf(tuning, path[i])]
Count(seq, x) == Cardinality({ i \in 1..Len(seq) : seq[i] = x })

\* C4: every fingering returned for a chord of two or more notes has no two
\* positions on the same string, and its positions off the open strings lie
\* within max(fret) - min(fret) < 5.
C4_OnePerStringAndSpan ==
  (ppc = "done" /\ Len(chord) >= 2) =>
    \A i \in 1..Len(paths) :
      LET path == paths[i]
      IN  /\ \A a, b \in 1..Len(path) : a # b => path[a][1] # path[b][1]
          /\ \A a, b \in 1..Len(path) :
               (path[a][2] # 0 /\ path[b][2] # 0) => path[a][2] - path[b][2] < 5

\* A three-note chord got a fingering with an open string and two fretted
\* positions exactly 4 frets apart.
C4_Witness ==
  /\ ppc = "done"
  /\ Len(chord) = 3
  /\ \E i \in 1..Len(paths) :
       /\ \E a \in 1..3 : paths[i][a][2] = 0
       /\ \E a, b \in 1..3 : paths[i][a][2] # 0 /\ paths[i][a][2] - paths[i][b][2] = 4 /\ paths[i][b][2] # 0

\* C5: find_all_paths returns, and every fingering it returns has exactly one
\* position per required note, the multiset of its notes being the multiset
\* of the required pitches -- also for a chord with duplicate pitches.
C5_OnePositionPerRequiredNote ==
  (ppc \in {"done", "error"}) =>
    /\ ppc = "done"
    /\ \A i \in 1..Len(paths) :
         /\ Len(paths[i]) = Len(chord)
         /\ \A n \in SetOf(chord) \cup SetOf(NotesOfPath(paths[i])) :
              Count(NotesOfPath(paths[i]), n) = Count(chord, n)

\* C6: no two fingerings of the returned list have equal sets of positions.
C6_Deduplicated ==
  (ppc = "done") =>
    \A i, j \in 1..Len(paths) : i # j => SetOf(paths[i]) # SetOf(paths[j])

\* A returned fingering was found again, in another tuple order, under a
\* later permutation of the layers.
C6_Witness ==
  /\ ppc = "done"
  /\ Len(chord) >= 2
  /\ LET perms == permutations(note_arrays)
     IN  \E k \in 2..Len(perms) :
           LET found == PermutationPaths(G, perms[k], 1)
           IN  \E f \in 1..Len(found) : \E i \in 1..Len(paths) :
                 SetOf(found[f]) = SetOf(paths[i]) /\ found[f] # paths[i]

\* Pairwise distinct required pitches.
DistinctPitches == \A i, j \in 1..Len(chord) : i # j => chord[i] # chord[j]

\* A selection (one candidate position per required note, in chord order) can
\* be chained in the order `ord` of the notes: consecutive positions on
\* different strings and less than 6 apart.
Chained(sel, ord) ==
  \A k \in 1..(Len(sel) - 1) :
    LET a == sel[ord[k]]
        b == sel[ord[k + 1]]
    IN  a[1] # b[1] /\ G[a][b].distance < 600

\* The reference set of C7, as sets of positions.
ReferenceFingerings ==
  LET n == Len(chord)
      selections == { sel \in [1..n -> DOMAIN G] : \A i \in 1..n : sel[i] \in SetOf(note_arrays[i]) }
      orders == { ord \in [1..n -> 1..n] : \A i, j \in 1..n : i # j => ord[i] # ord[j] }
  IN  { SetOf(sel) : sel \in
          { x \in selections :
              /\ \A i, j \in 1..n : i # j => x[i][1] # x[j][1]
              /\ \A i, j \in 1..n : (x[i][2] # 0 /\ x[j][2] # 0) => x[i][2] - x[j][2] < 5
              /\ \E ord \in orders : Chained(x, ord) } }

\* C7: for two or more pairwise distinct pitches, the position sets returned
\* are exactly the reference set: none missing, none extra.
C7_EnumerationComplete ==
  (ppc = "done" /\ Len(chord) >= 2 /\ DistinctPitches) =>
    { SetOf(paths[i]) : i \in 1..Len(paths) } = ReferenceFingerings

\* A chord of three distinct pitches got several fingerings, one of them
\* with positions that cannot be chained in the order of the chord (another
\* order of the layers found it).
C7_Witness ==
  /\ ppc = "done"
  /\ Len(chord) = 3
  /\ DistinctPitches
  /\ Len(paths) >= 2
  /\ \E i \in 1..Len(paths) :
       LET sel == [k \in 1..3 |->
                     CHOOSE p \in SetOf(paths[i]) : NoteOf(tuning, p) = chord[k]]
       IN  ~Chained(sel, <<1, 2, 3>>)

\* A chord of three distinct pitches has a selection of candidates on
\* distinct strings and within the span that no order of the notes chains,
\* and it was not returned.
C7_ExcludedSelection ==
  /\ ppc = "done"
  /\ Len(chord) = 3
  /\ DistinctPitches
  /\ \E sel \in [1..3 -> DOMAIN G] :
       /\ \A k \in 1..3 : sel[k] \in SetOf(note_arrays[k])
       /\ \A a, b \in 1..3 : a # b => sel[a][1] # sel[b][1]
       /\ \A a, b \in 1..3 : (sel[a][2] # 0 /\ sel[b][2] # 0) => sel[a][2] - sel[b][2] < 5
       /\ SetOf(sel) \notin { SetOf(paths[j]) : j \in 1..Len(paths) }

\* C9: when some required note has no position on the graph, find_all_paths
\* returns the empty list, without raising.
C9_MissingNoteGivesEmptyList ==
  (ppc \in {"done", "error"} /\ \E i \in 1..Len(note_arrays) : note_arrays[i] = <<>>) =>
    (ppc = "done" /\ paths = <<>>)

----------------------------------------------------------------------------
\* Properties of viterbi.

\* The model's priors are positive and every observation has a candidate.
PositivePrior == \A i \in DOMAIN initial_distribution : initial_distribution[i][1] > 0

\* C1: for T >= 1, positive transition rows and a 0/1 emission matrix with a
\* candidate in every column, viterbi returns a sequence of length exactly T
\* whose state at every time-step t is a candidate of chord t (Em[s_t][t] = 1).
C1_OutputLengthAndMembership ==
  (vpc = "done" /\ T >= 1) =>
     /\ DOMAIN S = 0..(T - 1)
     /\ \A t \in 0..(T - 1) : S[t] \in 0..(M - 1) /\ Em[S[t]][t] = 1

\* A run of three chords has returned, and at some time-step a state of the
\* bank was masked out.
C1_Witness ==
  /\ vpc = "done"
  /\ T = 3
  /\ M >= 2
  /\ \E t \in 0..(T - 1) : \E i \in 0..(M - 1) : Em[i][t] = 0
  /\ \E t \in 1..(T - 1) : S[t] # S[0]

RECURSIVE ScoreFrom(_, _)
\* sum over t = k..1 of log(A[s_{t-1}][s_t]) + log(B[s_t][t])
ScoreFrom(seq, k) ==
  IF k = 0 THEN Fin(0)
  ELSE LAdd(ScoreFrom(seq, k - 1),
            LAdd(Log(Tm[seq[k - 1]][seq[k]]), Log(<<Em[seq[k]][k], 1>>)))

\* log(pi[s_0]) + log(B[s_0][0]) + sum over t >= 1 of
\* log(A[s_{t-1}][s_t]) + log(B[s_t][t])
Score(seq) ==
  LAdd(LAdd(Log(initial_distribution[seq[0]]), Log(<<Em[seq[0]][0], 1>>)),
       ScoreFrom(seq, T - 1))

\* C2: the sequence viterbi returns attains the maximum of the score over all
\* M^T state sequences (no sequence found by brute force scores higher).
C2_MaximisingDecoder ==
  (vpc = "done" /\ T >= 1) =>
     \A seq \in [0..(T - 1) -> 0..(M - 1)] : ~LGreater(Score(seq), Score(S))

\* A run of three chords has returned a finite-score sequence that differs
\* from the greedy choice by time-step, and some other sequence is feasible
\* but scores strictly less.
C2_Witness ==
  /\ vpc = "done"
  /\ T = 3
  /\ IsFin(Score(S))
  /\ \E seq \in [0..(T - 1) -> 0..(M - 1)] :
        IsFin(Score(seq)) /\ LGreater(Score(S), Score(seq))

\* C8: with zero chords (T = 0) decoding returns an empty result and does
\* not end in an error.
C8_EmptySequenceReturnsEmpty ==
  (T = 0 /\ vpc # "start") => (vpc = "done" /\ S = <<>>)

----------------------------------------------------------------------------
\* Properties of expand_emission_matrix.

RECURSIVE RowsBefore(_)
\* The number of rows appended by the first t calls.
RowsBefore(t) == IF t = 0 THEN 0 ELSE calls[t] + RowsBefore(t - 1)

\* Row i was appended by call t (calls and columns counted from 0).
AppendedBy(i, t) == RowsBefore(t) <= i /\ i < RowsBefore(t + 1)

\* The matrix after the calls made so far: one row per fingering appended,
\* one column per call, entry [i][t] = 1 iff row i was appended by call t.
EmissionShape ==
  /\ DOMAIN emission_matrix = 0..(RowsBefore(Len(calls)) - 1)
  /\ \A i \in DOMAIN emission_matrix :
       /\ DOMAIN emission_matrix[i] = 0..(Len(calls) - 1)
       /\ \A t \in 0..(Len(calls) - 1) :
            emission_matrix[i][t] = IF AppendedBy(i, t) THEN 1 ELSE 0

\* A call keeps every existing entry, gives the old rows 0 in the new column
\* and the new rows 0 in all old columns.
EmissionFrame ==
  LET r == Rows(emission_matrix)
      c == Cols(emission_matrix)
  IN  /\ \A i \in 0..(r - 1) : \A t \in 0..(c - 1) :
           emission_matrix'[i][t] = emission_matrix[i][t]
      /\ \A i \in 0..(r - 1) : c > 0 => emission_matrix'[i][c] = 0
      /\ \A i \in DOMAIN emission_matrix' : \A t \in 0..(c - 1) :
           i >= r => emission_matrix'[i][t] = 0

\* C10: after any sequence of expand_emission_matrix calls from the empty
\* matrix, each with a non-empty list of new fingerings, the matrix has one
\* row per fingering appended so far and one column per call, entry [i][t] is
\* 1 iff row i was appended by call t, and each call leaves every existing
\* entry unchanged (old rows 0 in the new column, new rows 0 in old columns).
C10_ExpandKeepsIndicatorMatrix ==
  /\ [](epc = "ready" => EmissionShape)
  /\ [][(epc' = "ready") => EmissionFrame]_vars

\* Three calls were made, with lists of different sizes, two of them longer
\* than one fingering.
C10_Witness ==
  /\ epc = "ready"
  /\ Len(calls) = 3
  /\ calls[1] # calls[2]
  /\ calls[2] >= 2
  /\ calls[3] >= 2
  /\ Rows(emission_matrix) = calls[1] + calls[2] + calls[3]
  /\ Cols(emission_matrix) = 3

----------------------------------------------------------------------------
\* Properties of single-chord decoding.

\* C3: decoding a single chord (T = 1, default uniform initial distribution,
\* several candidate fingerings) returns the candidate whose difficulty given
\* an empty previous fingering is the lowest among the chord's candidates.
C3_SingleChordLowestDifficulty ==
  (ppc = "done" /\ vpc = "done" /\ T = 1 /\ Len(paths) >= 2) =>
    \A j \in 1..Len(paths) :
      compute_path_difficulty(G, paths[S[0] + 1], <<>>)
        <= compute_path_difficulty(G, paths[j], <<>>)

----------------------------------------------------------------------------
\* Properties of compute_path_difficulty.

\* C11: when compute_path_difficulty is called with an empty previous
\* fingering, the height-difference factor dh is 0 and the changed-strings
\* factor cs is 0, for every current fingering (also one with non-open
\* positions).
C11_EmptyPreviousNoHeightNoStringChange ==
  (cpd_pc = "done" /\ cpd_previous_path = <<>>) =>
    (cpd_dheight = 0 /\ cpd_n_changed_strings = 0)

----------------------------------------------------------------------------
\* Properties of get_all_possible_notes.

\* A note transposed up by k semitones.
Transposed(note, k) == <<(note[1] + k) % 12, note[2] + (note[1] + k) \div 12>>

\* C12: for a tuning of N strings and a fret count F, get_all_possible_notes
\* yields for every string a position at every fret index 0..F inclusive, the
\* note at fret index k being the open string's note transposed up by k
\* semitones.
C12_FretsZeroToFInclusive ==
  (gn_pc \in {"done", "error"}) =>
    /\ gn_pc = "done"
    /\ DOMAIN gn_res = 0..(Len(gn_tuning) - 1)
    /\ \A s \in DOMAIN gn_res :
         /\ DOMAIN gn_res[s] = 0..gn_nfrets
         /\ \A k \in DOMAIN gn_res[s] : gn_res[s][k] = Transposed(gn_tuning[s + 1], k)

----------------------------------------------------------------------------
\* Properties of build_path_graph.

\* C13: in the layered path graph, two positions of consecutive layers that
\* are both open strings (fret 0) on different strings are connected by an
\* edge whatever their stored distance; every other pair is connected iff
\* the positions are on different strings and their distance is less than 6.
C13_OpenStringsExemptFromDistance ==
  (bpg_pc = "done") =>
    \A a \in SetOf(note_arrays[1]) : \A b \in SetOf(note_arrays[2]) :
      IF a[2] = 0 /\ b[2] = 0 /\ a[1] # b[1]
      THEN <<a, b>> \in path_graph
      ELSE <<a, b>> \in path_graph <=> (a[1] # b[1] /\ G[a][b].distance < 600)

\* C13, amended: two positions of consecutive layers are connected by an
\* edge iff they are on different strings and their stored distance is less
\* than 6, open-string positions included.
C13_EdgeIffDifferentStringsAndNear ==
  (bpg_pc = "done") =>
    \A a \in SetOf(note_arrays[1]) : \A b \in SetOf(note_arrays[2]) :
      <<a, b>> \in path_graph <=> (a[1] # b[1] /\ G[a][b].distance < 600)

\* The graph was built for two open strings 36 strings apart, stored
\* distance 6, and has no edge.
C13_Witness ==
  /\ bpg_pc = "done"
  /\ \E a \in SetOf(note_arrays[1]) : \E b \in SetOf(note_arrays[2]) :
       /\ a[2] = 0
       /\ b[2] = 0
       /\ a[1] # b[1]
       /\ G[a][b].distance >= 600
       /\ <<a, b>> \notin path_graph

\* The graph was built for an open string and a fretted position on another
\* string, less than 6 apart, and has the edge.
C13_NearEdge ==
  /\ bpg_pc = "done"
  /\ \E a \in SetOf(note_arrays[1]) : \E b \in SetOf(note_arrays[2]) :
       /\ a[2] # 0
       /\ b[2] = 0
       /\ a[1] # b[1]
       /\ <<a, b>> \in path_graph

====
